---------------------------- MODULE Spec2Model ----------------------------
(***************************************************************************)
(* Riesz s-energy subset selection: the order-based dynamic programme and  *)
(* the exhaustive search of dp_1d.py (1-D points) and pareto2d.py (2-D     *)
(* Pareto points), run on the same (points, k, s).                         *)
(*                                                                         *)
(* Energies are Python floats (IEEE-754 binary64).  They are modelled      *)
(* bit-exactly: a float is a 53-bit significand and a binary exponent, the *)
(* significand held as a natural number in base-2^15 limbs, and every      *)
(* division, square root, power and addition rounds to nearest, ties to    *)
(* even, as the hardware does.  Coordinates are small integers, so no      *)
(* exponent leaves the normal range.                                       *)
(***************************************************************************)
EXTENDS Integers, Sequences, FiniteSets

VARIABLES
    variant,            \* "dp_1d" or "pareto2d": the source file that runs
    points,             \* x (dp_1d.py) or points (pareto2d.py)
    k,                  \* number of points to select
    s,                  \* exponent of the energy
    pc,                 \* "base", "fill", "scan", "bf" or "done"
    dp,                 \* dp[r][i], r in 0..k, i in 0..n-1
    r,                  \* row of the cell the DP computes next
    i,                  \* column of that cell
    dp_result,          \* what the DP solver gave back to its caller
    comb,               \* the combination the brute force examines next
    best_energy,        \* brute force: least energy so far
    best_subset,        \* brute force: its subset
    bf_result           \* what the brute-force solver gave back

vars == <<variant, points, k, s, pc, dp, r, i, dp_result, comb,
          best_energy, best_subset, bf_result>>

n == Len(points)

(***************************************************************************)
(* Natural numbers of arbitrary size: little-endian sequences of limbs in  *)
(* 0..LimbBase-1 without high zero limbs; <<>> is zero.                    *)
(***************************************************************************)
LimbBits == 15

LimbBase == 32768

RECURSIVE Pow(_, _)
Pow(b, e) == IF e = 0 THEN 1 ELSE b * Pow(b, e - 1)

Limb(a, j) == IF j <= Len(a) THEN a[j] ELSE 0

RECURSIVE BNorm(_)
BNorm(a) ==
    IF a = <<>> THEN <<>>
    ELSE IF a[Len(a)] = 0 THEN BNorm(SubSeq(a, 1, Len(a) - 1))
    ELSE a

RECURSIVE BAddC(_, _, _, _)
BAddC(a, b, j, c) ==
    IF j > Len(a) /\ j > Len(b)
    THEN IF c = 0 THEN <<>> ELSE <<c>>
    ELSE LET t == Limb(a, j) + Limb(b, j) + c
         IN  <<t % LimbBase>> \o BAddC(a, b, j + 1, t \div LimbBase)

BAdd(a, b) == BAddC(a, b, 1, 0)

RECURSIVE BSubC(_, _, _, _)
BSubC(a, b, j, c) ==
    IF j > Len(a) THEN <<>>
    ELSE LET t == a[j] - Limb(b, j) - c
         IN  IF t < 0
             THEN <<t + LimbBase>> \o BSubC(a, b, j + 1, 1)
             ELSE <<t>> \o BSubC(a, b, j + 1, 0)

\* a - b for a >= b
BSub(a, b) == BNorm(BSubC(a, b, 1, 0))

RECURSIVE BCmpAt(_, _, _)
BCmpAt(a, b, j) ==
    IF j = 0 THEN 0
    ELSE IF a[j] < b[j] THEN -1
    ELSE IF a[j] > b[j] THEN 1
    ELSE BCmpAt(a, b, j - 1)

\* -1, 0, 1 as a < b, a = b, a > b
BCmp(a, b) ==
    IF Len(a) < Len(b) THEN -1
    ELSE IF Len(a) > Len(b) THEN 1
    ELSE BCmpAt(a, b, Len(a))

RECURSIVE BMulSmallC(_, _, _, _)
BMulSmallC(a, c, j, carry) ==
    IF j > Len(a)
    THEN IF carry = 0 THEN <<>> ELSE <<carry>>
    ELSE LET t == a[j] * c + carry
         IN  <<t % LimbBase>> \o BMulSmallC(a, c, j + 1, t \div LimbBase)

\* a * c for 0 <= c < LimbBase
BMulSmall(a, c) == IF c = 0 THEN <<>> ELSE BMulSmallC(a, c, 1, 0)

RECURSIVE BDivSmallC(_, _, _, _)
BDivSmallC(a, c, j, rm) ==
    IF j = 0 THEN [q |-> <<>>, rem |-> rm]
    ELSE LET t    == rm * LimbBase + a[j]
             rest == BDivSmallC(a, c, j - 1, t % c)
         IN  [q |-> rest.q \o <<t \div c>>, rem |-> rest.rem]

\* quotient and remainder of a by c, 0 < c < LimbBase
BDivSmall(a, c) ==
    LET d == BDivSmallC(a, c, Len(a), 0) IN [q |-> BNorm(d.q), rem |-> d.rem]

Zeros(len) == [j \in 1..len |-> 0]

\* a * 2^d
BShl(a, d) ==
    IF a = <<>> THEN <<>>
    ELSE Zeros(d \div LimbBits) \o BMulSmall(a, Pow(2, d % LimbBits))

\* floor(a / 2^d)
BShr(a, d) ==
    LET w == d \div LimbBits
    IN  IF w >= Len(a) THEN <<>>
        ELSE BDivSmall(SubSeq(a, w + 1, Len(a)), Pow(2, d % LimbBits)).q

RECURSIVE SmallBitLen(_)
SmallBitLen(a) == IF a = 0 THEN 0 ELSE 1 + SmallBitLen(a \div 2)

BBitLen(a) ==
    IF a = <<>> THEN 0
    ELSE LimbBits * (Len(a) - 1) + SmallBitLen(a[Len(a)])

BOdd(a) == a # <<>> /\ a[1] % 2 = 1

BOne == <<1>>

BFromInt(a) == IF a = 0 THEN <<>> ELSE <<a>>

RECURSIVE BMulC(_, _, _)
BMulC(a, b, j) ==
    IF j > Len(b) THEN <<>>
    ELSE BAdd(Zeros(j - 1) \o BMulSmall(a, b[j]), BMulC(a, b, j + 1))

BMul(a, b) == BNorm(BMulC(a, b, 1))

RECURSIVE BPow(_, _)
BPow(a, e) == IF e = 0 THEN BOne ELSE BMul(a, BPow(a, e - 1))

Max(a, b) == IF a >= b THEN a ELSE b

\* binary long division, bits t down to stop of the quotient
RECURSIVE BDivBits(_, _, _, _, _)
BDivBits(rem, q, b, t, stop) ==
    IF t < stop THEN [q |-> q, rem |-> rem]
    ELSE LET bt == BShl(b, t)
         IN  IF BCmp(bt, rem) <= 0
             THEN BDivBits(BSub(rem, bt), BAdd(q, BShl(BOne, t)), b, t - 1, stop)
             ELSE BDivBits(rem, q, b, t - 1, stop)

\* ... in blocks of eight bits, until nothing is left of the dividend
RECURSIVE BDivBlocks(_, _, _)
BDivBlocks(st, b, t) ==
    IF t < 0 \/ st.rem = <<>> THEN st
    ELSE LET stop == Max(0, t - 7)
         IN  BDivBlocks(BDivBits(st.rem, st.q, b, t, stop), b, stop - 1)

\* quotient and remainder of a by b # 0
BDiv(a, b) == BDivBlocks([q |-> <<>>, rem |-> a], b, BBitLen(a) - BBitLen(b))

\* binary square root, bits t down to stop of the root: st.root is the root
\* so far and st.rem what is left of the radicand, radicand - root^2
RECURSIVE BSqrtBits(_, _, _)
BSqrtBits(st, t, stop) ==
    IF t < stop THEN st
    ELSE LET bit == BShl(BOne, t)
             sub == BShl(BAdd(BShl(st.root, 1), bit), t)
         IN  IF BCmp(sub, st.rem) <= 0
             THEN BSqrtBits([root |-> BAdd(st.root, bit),
                             rem |-> BSub(st.rem, sub)], t - 1, stop)
             ELSE BSqrtBits(st, t - 1, stop)

\* ... in blocks of eight bits, until nothing is left of the radicand
RECURSIVE BSqrtBlocks(_, _)
BSqrtBlocks(st, t) ==
    IF t < 0 \/ st.rem = <<>> THEN st
    ELSE LET stop == Max(0, t - 7)
         IN  BSqrtBlocks(BSqrtBits(st, t, stop), stop - 1)

\* floor(sqrt(a)) and the remainder a - floor(sqrt(a))^2
BSqrt(a) == BSqrtBlocks([root |-> <<>>, rem |-> a], BBitLen(a) \div 2)


(***************************************************************************)
(* Python floats.  Only non-negative values occur: 0.0, float('inf'), and  *)
(* m * 2^e with 2^52 <= m < 2^53.                                          *)
(***************************************************************************)
MantBits == 53

FZero == [kind |-> "zero"]

FInf == [kind |-> "inf"]

\* the float nearest to (a + f) * 2^e, ties to even, where a > 0 is a
\* natural number and 0 <= f < 1 is nonzero exactly when sticky holds
RoundNE(a, e, sticky) ==
    LET len == BBitLen(a)
    IN  IF len <= MantBits
        THEN [kind |-> "fin", m |-> BShl(a, MantBits - len),
              e |-> e - (MantBits - len)]
        ELSE LET drop == len - MantBits
                 q    == BShr(a, drop)
                 rm   == BSub(a, BShl(q, drop))
                 c    == BCmp(rm, BShl(BOne, drop - 1))
                 up   == c > 0 \/ (c = 0 /\ (sticky \/ BOdd(q)))
                 m    == IF up THEN BAdd(q, BOne) ELSE q
             IN  IF BBitLen(m) > MantBits
                 THEN [kind |-> "fin", m |-> BShr(m, 1), e |-> e + drop + 1]
                 ELSE [kind |-> "fin", m |-> m, e |-> e + drop]

Min(a, b) == IF a <= b THEN a ELSE b

\* float + float
FAdd(a, b) ==
    IF a.kind = "inf" \/ b.kind = "inf" THEN FInf
    ELSE IF a.kind = "zero" THEN b
    ELSE IF b.kind = "zero" THEN a
    ELSE LET lo == Min(a.e, b.e)
         IN  RoundNE(BAdd(BShl(a.m, a.e - lo), BShl(b.m, b.e - lo)), lo, FALSE)

\* float < float
FLess(a, b) ==
    IF a.kind = "inf" THEN FALSE
    ELSE IF b.kind = "inf" THEN TRUE
    ELSE IF b.kind = "zero" THEN FALSE
    ELSE IF a.kind = "zero" THEN TRUE
    ELSE a.e < b.e \/ (a.e = b.e /\ BCmp(a.m, b.m) < 0)

\* 1.0 / g for an int g in 1..LimbBase-1
FRecipInt(g) ==
    LET d == BDivSmall(BShl(BOne, 80), g)
    IN  RoundNE(d.q, -80, d.rem # 0)

\* math.sqrt(a) for an int a in 1..LimbBase-1
FSqrtInt(a) ==
    LET sq == BSqrt(BShl(BFromInt(a), 108))
    IN  RoundNE(sq.root, -54, sq.rem # <<>>)

\* d ** pw for a finite float d > 0 and an int pw >= 1
FPowInt(d, pw) == RoundNE(BPow(d.m, pw), pw * d.e, FALSE)

\* 1.0 / d for a finite float d > 0
FRecip(d) ==
    LET q == BDiv(BShl(BOne, 108), d.m)
    IN  RoundNE(q.q, (-108) - d.e, q.rem # <<>>)


(***************************************************************************)
(* Input bounds.                                                           *)
(***************************************************************************)
\* 1-D coordinates are drawn from 0..MaxCoord
MaxCoord == 6

\* 1-D sequences with repeated coordinates: values 0..MaxDupCoord
MaxDupCoord == 2

\* ... and length at most MaxDupLen
MaxDupLen == 4

\* 2-D points lie on the grid (0..MaxGrid) x (0..MaxGrid)
MaxGrid == 2

\* 2-D sequences have length at most MaxLen2D
MaxLen2D == 3

\* the exponent s is drawn from 1..MaxS
MaxS == 2

\* k is drawn from 1..n+MaxOver
MaxOver == 1

(***************************************************************************)
(* Python values.  None in a float position is NoneF; None in a list       *)
(* position is NoneList, which no index list equals (indices are >= 0);    *)
(* a table slot still holding None is NoneCell.                            *)
(***************************************************************************)
NoneF == [kind |-> "None"]

NoneList == <<-1>>

NoneCell == [kind |-> "None"]

Cell(energy, subset) == [kind |-> "tuple", energy |-> energy, subset |-> subset]

IsNone(v) == v.kind = "None"

Pending == [status |-> "pending"]

Returned(energy, subset) ==
    [status |-> "returned", energy |-> energy, subset |-> subset]

\* TypeError: 'NoneType' object is not iterable, or '<' between None and float
Raised == [status |-> "raised"]

(***************************************************************************)
(* Distance/energy model.                                                  *)
(***************************************************************************)
\* 1.0 / (gap ** s), dp_1d.py
InvPow(gap, e) == FRecipInt(Pow(gap, e))

\* <<f(lo), ..., f(hi)>> by halving; index (gap - 1) * MaxS + e stands for
\* the pair (gap, e)
RECURSIVE InvPowRows(_, _)
InvPowRows(lo, hi) ==
    IF lo > hi THEN <<>>
    ELSE IF lo = hi THEN <<InvPow(((lo - 1) \div MaxS) + 1, ((lo - 1) % MaxS) + 1)>>
    ELSE LET mid == (lo + hi) \div 2
         IN  InvPowRows(lo, mid) \o InvPowRows(mid + 1, hi)

\* the values of InvPow, computed once
InvPowTable == InvPowRows(1, MaxCoord * MaxS)

InvPowAt(gap, e) == InvPowTable[(gap - 1) * MaxS + e]

\* (p[0] - q[0])**2 + (p[1] - q[1])**2
SqDist(p, q) == (p[1] - q[1]) * (p[1] - q[1]) + (p[2] - q[2]) * (p[2] - q[2])

RECURSIVE SqrtRows(_, _)
SqrtRows(lo, hi) ==
    IF lo > hi THEN <<>>
    ELSE IF lo = hi THEN <<FSqrtInt(lo)>>
    ELSE LET mid == (lo + hi) \div 2
         IN  SqrtRows(lo, mid) \o SqrtRows(mid + 1, hi)

\* SqrtTable[d2] = math.sqrt(d2), computed once
SqrtTable == SqrtRows(1, 2 * MaxGrid * MaxGrid)

\* dist ** e with dist = math.sqrt(d2)
DistPow(d2, e) == FPowInt(SqrtTable[d2], e)

RECURSIVE DistPowRows(_, _)
DistPowRows(lo, hi) ==
    IF lo > hi THEN <<>>
    ELSE IF lo = hi THEN <<DistPow(((lo - 1) \div MaxS) + 1, ((lo - 1) % MaxS) + 1)>>
    ELSE LET mid == (lo + hi) \div 2
         IN  DistPowRows(lo, mid) \o DistPowRows(mid + 1, hi)

\* the values of DistPow, computed once
DistPowTable == DistPowRows(1, 2 * MaxGrid * MaxGrid * MaxS)

\* 1.0 / (dist ** e), pareto2d.py
InvDist(d2, e) == FRecip(DistPowTable[(d2 - 1) * MaxS + e])

RECURSIVE InvDistRows(_, _)
InvDistRows(lo, hi) ==
    IF lo > hi THEN <<>>
    ELSE IF lo = hi THEN <<InvDist(((lo - 1) \div MaxS) + 1, ((lo - 1) % MaxS) + 1)>>
    ELSE LET mid == (lo + hi) \div 2
         IN  InvDistRows(lo, mid) \o InvDistRows(mid + 1, hi)

\* the values of InvDist, computed once
InvDistTable == InvDistRows(1, 2 * MaxGrid * MaxGrid * MaxS)

InvDistAt(d2, e) == InvDistTable[(d2 - 1) * MaxS + e]


(***************************************************************************)
(* dp_1d.py, dp_subset.                                                    *)
(***************************************************************************)
\* x[idx] for a 0-based index
X(idx) == points[idx + 1]

\* a faulty extra cost: only the gap to the last member of subset is counted
extra_cost_1d_last_only(subset, j, ii, acc) ==
    LET gap == X(ii) - X(subset[Len(subset)])
    IN  IF gap <= 0
        THEN [valid |-> FALSE, cost |-> acc]
        ELSE [valid |-> TRUE, cost |-> FAdd(acc, InvPowAt(gap, s))]

\* lines 75-82: the cost of adding x[ii] to subset, from its j-th member on
RECURSIVE extra_cost_1d(_, _, _, _)
extra_cost_1d(subset, j, ii, acc) ==
    IF j > Len(subset) THEN [valid |-> TRUE, cost |-> acc]
    ELSE LET gap == X(ii) - X(subset[j])
         IN  IF gap <= 0
             THEN [valid |-> FALSE, cost |-> acc]
             ELSE extra_cost_1d(subset, j + 1, ii,
                                FAdd(acc, InvPowAt(gap, s)))

\* lines 70-88: the loop over the previous endpoints pp..ii-1 of cell (rr, ii)
RECURSIVE prev_loop_1d(_, _, _, _, _)
prev_loop_1d(rr, ii, pp, best, bsub) ==
    IF pp >= ii THEN [raised |-> FALSE, energy |-> best, subset |-> bsub]
    ELSE LET prev == dp[rr - 1][pp]
         IN  IF IsNone(prev) THEN prev_loop_1d(rr, ii, pp + 1, best, bsub)
             ELSE IF prev.subset = NoneList
             THEN [raised |-> TRUE, energy |-> best, subset |-> bsub]
             ELSE LET ec        == extra_cost_1d(prev.subset, 1, ii, FZero)
                      candidate == FAdd(prev.energy, ec.cost)
                  IN  IF ~ec.valid
                      THEN prev_loop_1d(rr, ii, pp + 1, best, bsub)
                      ELSE IF IsNone(best) \/ FLess(candidate, best)
                      THEN prev_loop_1d(rr, ii, pp + 1, candidate,
                                        Append(prev.subset, ii))
                      ELSE prev_loop_1d(rr, ii, pp + 1, best, bsub)

\* lines 92-101: the scan of row k from column ii on
RECURSIVE final_scan_1d(_, _, _)
final_scan_1d(ii, best_final, best_subset_final) ==
    IF ii >= n THEN Returned(best_final, best_subset_final)
    ELSE LET c == dp[k][ii]
         IN  IF IsNone(c)
             THEN final_scan_1d(ii + 1, best_final, best_subset_final)
             ELSE IF IsNone(best_final)
             THEN final_scan_1d(ii + 1, c.energy, c.subset)
             ELSE IF IsNone(c.energy) THEN Raised
             ELSE IF FLess(c.energy, best_final)
             THEN final_scan_1d(ii + 1, c.energy, c.subset)
             ELSE final_scan_1d(ii + 1, best_final, best_subset_final)

(***************************************************************************)
(* pareto2d.py, dp_subset_selection.                                       *)
(***************************************************************************)
\* a faulty extra cost: only the distance to the last member is counted
extra_cost_2d_last_only(subset, j, ii, acc) ==
    LET d2 == SqDist(X(subset[Len(subset)]), X(ii))
    IN  IF d2 = 0 THEN FInf ELSE FAdd(acc, InvDistAt(d2, s))

\* lines 46-53
RECURSIVE extra_cost_2d(_, _, _, _)
extra_cost_2d(subset, j, ii, acc) ==
    IF j > Len(subset) THEN acc
    ELSE LET d2 == SqDist(X(subset[j]), X(ii))
         IN  IF d2 = 0 THEN FInf
             ELSE extra_cost_2d(subset, j + 1, ii,
                                FAdd(acc, InvDistAt(d2, s)))

\* lines 42-57
RECURSIVE prev_loop_2d(_, _, _, _, _)
prev_loop_2d(rr, ii, pp, best, bsub) ==
    IF pp >= ii THEN [raised |-> FALSE, energy |-> best, subset |-> bsub]
    ELSE LET prev == dp[rr - 1][pp]
         IN  IF IsNone(prev) THEN prev_loop_2d(rr, ii, pp + 1, best, bsub)
             ELSE IF prev.subset = NoneList
             THEN [raised |-> TRUE, energy |-> best, subset |-> bsub]
             ELSE LET candidate_energy ==
                          FAdd(prev.energy,
                               extra_cost_2d(prev.subset, 1, ii, FZero))
                  IN  IF FLess(candidate_energy, best)
                      THEN prev_loop_2d(rr, ii, pp + 1, candidate_energy,
                                        Append(prev.subset, ii))
                      ELSE prev_loop_2d(rr, ii, pp + 1, best, bsub)

\* lines 61-71
RECURSIVE final_scan_2d(_, _, _)
final_scan_2d(ii, final_energy, final_subset) ==
    IF ii >= n THEN Returned(final_energy, final_subset)
    ELSE LET c == dp[k][ii]
         IN  IF IsNone(c)
             THEN final_scan_2d(ii + 1, final_energy, final_subset)
             ELSE IF FLess(c.energy, final_energy)
             THEN final_scan_2d(ii + 1, c.energy, c.subset)
             ELSE final_scan_2d(ii + 1, final_energy, final_subset)

\* a faulty loop: the previous endpoints start at rr-1 instead of rr-2
prev_loop_skip_first(rr, ii) ==
    IF variant = "dp_1d"
    THEN prev_loop_1d(rr, ii, rr - 1, NoneF, NoneList)
    ELSE prev_loop_2d(rr, ii, rr - 1, FInf, NoneList)

\* the loop over the previous endpoints of cell (rr, ii), from pp = rr-2
prev_loop(rr, ii) ==
    IF variant = "dp_1d"
    THEN prev_loop_1d(rr, ii, rr - 2, NoneF, NoneList)
    ELSE prev_loop_2d(rr, ii, rr - 2, FInf, NoneList)

final_scan ==
    IF variant = "dp_1d"
    THEN final_scan_1d(k - 1, NoneF, NoneList)
    ELSE final_scan_2d(k - 1, FInf, NoneList)


(***************************************************************************)
(* brute_force_subset (dp_1d.py) and brute_force_subset_selection          *)
(* (pareto2d.py).                                                          *)
(***************************************************************************)
\* itertools.combinations(range(n), k): the first combination, if any
first_combination == IF k <= n THEN [j \in 1..k |-> j - 1] ELSE NoneList

\* itertools.combinations: the combination after c, NoneList when exhausted
next_combination(c) ==
    LET movable == {j \in 1..k : c[j] # (j - 1) + n - k}
    IN  IF movable = {} THEN NoneList
        ELSE LET j == CHOOSE m \in movable : \A o \in movable : o <= m
             IN  [l \in 1..k |-> IF l < j THEN c[l] ELSE c[j] + 1 + (l - j)]

\* dp_1d.py lines 124-134: the pairs (a, b), (a, b+1), ... of subset
RECURSIVE pair_energy_1d(_, _, _, _)
pair_energy_1d(subset, a, b, energy) ==
    IF a > k THEN [valid |-> TRUE, energy |-> energy]
    ELSE IF b > k THEN pair_energy_1d(subset, a + 1, a + 2, energy)
    ELSE LET gap == X(subset[b]) - X(subset[a])
         IN  IF gap <= 0 THEN [valid |-> FALSE, energy |-> energy]
             ELSE pair_energy_1d(subset, a, b + 1,
                                 FAdd(energy, InvPowAt(gap, s)))

\* pareto2d.py lines 91-101
RECURSIVE pair_energy_2d(_, _, _, _)
pair_energy_2d(subset, a, b, energy) ==
    IF a > k THEN [valid |-> TRUE, energy |-> energy]
    ELSE IF b > k THEN pair_energy_2d(subset, a + 1, a + 2, energy)
    ELSE LET d2 == SqDist(X(subset[a]), X(subset[b]))
         IN  IF d2 = 0 THEN [valid |-> FALSE, energy |-> energy]
             ELSE pair_energy_2d(subset, a, b + 1,
                                 FAdd(energy, InvDistAt(d2, s)))

pair_energy(subset) ==
    IF variant = "dp_1d"
    THEN pair_energy_1d(subset, 1, 2, FZero)
    ELSE pair_energy_2d(subset, 1, 2, FZero)

\* a faulty comparison: only the first valid combination is ever kept
improves_first_valid(energy, best) ==
    IF variant = "dp_1d" THEN IsNone(best) ELSE best = FInf

\* a faulty comparison: a combination of equal energy replaces the best
improves_or_ties(energy, best) ==
    IF variant = "dp_1d"
    THEN IsNone(best) \/ FLess(energy, best) \/ energy = best
    ELSE FLess(energy, best) \/ energy = best

\* a faulty comparison: the larger energy wins
improves_reversed(energy, best) ==
    IF variant = "dp_1d"
    THEN IsNone(best) \/ FLess(best, energy)
    ELSE best = FInf \/ FLess(best, energy)

\* dp_1d.py line 137, pareto2d.py line 102: does the candidate replace the best
improves(energy, best) ==
    IF variant = "dp_1d"
    THEN IsNone(best) \/ FLess(energy, best)
    ELSE FLess(energy, best)

(***************************************************************************)
(* Inputs.                                                                 *)
(***************************************************************************)
RECURSIVE SortedSeq(_)
SortedSeq(S) ==
    IF S = {} THEN <<>>
    ELSE LET m == CHOOSE v \in S : \A w \in S : v <= w
         IN  <<m>> \o SortedSeq(S \ {m})

\* strictly increasing 1-D sequences
Increasing1D == {SortedSeq(S) : S \in (SUBSET (0..MaxCoord)) \ {{}}}

\* non-decreasing 1-D sequences, repeated coordinates allowed
NonDecreasing1D ==
    {q \in UNION {[1..len -> 0..MaxDupCoord] : len \in 1..MaxDupLen} :
        \A j \in 1..(Len(q) - 1) : q[j] <= q[j + 1]}

GridPoints == (0..MaxGrid) \X (0..MaxGrid)

\* 2-D sequences, first coordinate ascending and second descending,
\* repeated points allowed
Pareto2D ==
    {q \in UNION {[1..len -> GridPoints] : len \in 1..MaxLen2D} :
        \A j \in 1..(Len(q) - 1) :
            q[j][1] <= q[j + 1][1] /\ q[j][2] >= q[j + 1][2]}

Init ==
    /\ \/ variant = "dp_1d" /\ points \in Increasing1D \cup NonDecreasing1D
       \/ variant = "pareto2d" /\ points \in Pareto2D
    /\ k \in 1..(Len(points) + MaxOver)
    /\ s \in 1..MaxS
    /\ pc = "base"
    /\ dp = [rr \in 0..k |-> [ii \in 0..(Len(points) - 1) |-> NoneCell]]
    /\ r = 1
    /\ i = 0
    /\ dp_result = Pending
    /\ comb = first_combination
    /\ best_energy = IF variant = "dp_1d" THEN NoneF ELSE FInf
    /\ best_subset = NoneList
    /\ bf_result = Pending

(***************************************************************************)
(* The steps of the two solvers.  The DP solver runs first, one table cell *)
(* a step; the brute force follows, one combination a step.  The two calls *)
(* are independent: the brute force is called whether the DP returned or   *)
(* raised.                                                                 *)
(***************************************************************************)
\* a faulty base case: the one-point subset names its index twice
Base_two_indices ==
    /\ pc = "base"
    /\ dp' = [dp EXCEPT ![1][i] = Cell(FZero, <<i, i>>)]
    /\ IF i + 1 < n
       THEN /\ i' = i + 1
            /\ UNCHANGED <<r, pc>>
       ELSE IF k >= 2 /\ n >= 2
       THEN /\ r' = 2
            /\ i' = 1
            /\ pc' = "fill"
       ELSE /\ pc' = "scan"
            /\ UNCHANGED <<r, i>>
    /\ UNCHANGED <<variant, points, k, s, dp_result, comb, best_energy,
                   best_subset, bf_result>>

\* dp_1d.py lines 60-61, pareto2d.py lines 33-34
Base ==
    /\ pc = "base"
    /\ dp' = [dp EXCEPT ![1][i] = Cell(FZero, <<i>>)]
    /\ IF i + 1 < n
       THEN /\ i' = i + 1
            /\ UNCHANGED <<r, pc>>
       ELSE IF k >= 2 /\ n >= 2
       THEN /\ r' = 2
            /\ i' = 1
            /\ pc' = "fill"
       ELSE /\ pc' = "scan"
            /\ UNCHANGED <<r, i>>
    /\ UNCHANGED <<variant, points, k, s, dp_result, comb, best_energy,
                   best_subset, bf_result>>

\* a faulty fill: the result of cell (r, i) is stored in row r-1
Fill_previous_row ==
    /\ pc = "fill"
    /\ LET res == prev_loop(r, i)
       IN  IF res.raised
           THEN /\ dp_result' = Raised
                /\ pc' = "bf"
                /\ UNCHANGED <<dp, r, i>>
           ELSE /\ dp' = [dp EXCEPT ![r - 1][i] = Cell(res.energy, res.subset)]
                /\ UNCHANGED dp_result
                /\ IF i + 1 < n
                   THEN /\ i' = i + 1
                        /\ UNCHANGED <<r, pc>>
                   ELSE IF r + 1 <= k /\ r < n
                   THEN /\ r' = r + 1
                        /\ i' = r
                        /\ UNCHANGED pc
                   ELSE /\ pc' = "scan"
                        /\ UNCHANGED <<r, i>>
    /\ UNCHANGED <<variant, points, k, s, comb, best_energy, best_subset,
                   bf_result>>

\* dp_1d.py lines 64-89, pareto2d.py lines 37-58: one cell (r, i)
Fill ==
    /\ pc = "fill"
    /\ LET res == prev_loop(r, i)
       IN  IF res.raised
           THEN /\ dp_result' = Raised
                /\ pc' = "bf"
                /\ UNCHANGED <<dp, r, i>>
           ELSE /\ dp' = [dp EXCEPT ![r][i] = Cell(res.energy, res.subset)]
                /\ UNCHANGED dp_result
                /\ IF i + 1 < n
                   THEN /\ i' = i + 1
                        /\ UNCHANGED <<r, pc>>
                   ELSE IF r + 1 <= k /\ r < n
                   THEN /\ r' = r + 1
                        /\ i' = r
                        /\ UNCHANGED pc
                   ELSE /\ pc' = "scan"
                        /\ UNCHANGED <<r, i>>
    /\ UNCHANGED <<variant, points, k, s, comb, best_energy, best_subset,
                   bf_result>>

\* dp_1d.py lines 92-101, pareto2d.py lines 61-71
Scan ==
    /\ pc = "scan"
    /\ dp_result' = final_scan
    /\ pc' = "bf"
    /\ UNCHANGED <<variant, points, k, s, dp, r, i, comb, best_energy,
                   best_subset, bf_result>>

\* dp_1d.py lines 123-139, pareto2d.py lines 90-104: one combination
BruteStep ==
    /\ pc = "bf"
    /\ comb # NoneList
    /\ LET pe == pair_energy(comb)
       IN  IF pe.valid /\ improves(pe.energy, best_energy)
           THEN /\ best_energy' = pe.energy
                /\ best_subset' = comb
           ELSE UNCHANGED <<best_energy, best_subset>>
    /\ comb' = next_combination(comb)
    /\ UNCHANGED <<variant, points, k, s, pc, dp, r, i, dp_result, bf_result>>

\* dp_1d.py line 140, pareto2d.py line 105
BruteReturn ==
    /\ pc = "bf"
    /\ comb = NoneList
    /\ bf_result' = Returned(best_energy, best_subset)
    /\ pc' = "done"
    /\ UNCHANGED <<variant, points, k, s, dp, r, i, dp_result, comb,
                   best_energy, best_subset>>

Next == Base \/ Fill \/ Scan \/ BruteStep \/ BruteReturn

Spec == Init /\ [][Next]_vars


(***************************************************************************)
(* Vocabulary of the properties.                                           *)
(***************************************************************************)
\* pairwise distinct coordinates (1-D: strictly increasing)
DistinctCoords ==
    \A a, b \in 1..n : a < b =>
        IF variant = "dp_1d" THEN points[a] < points[b]
        ELSE points[a] # points[b]

\* two neighbours in the order share a coordinate
HasAdjacentDuplicate == \E j \in 1..(n - 1) : points[j] = points[j + 1]

\* every strictly increasing index tuple of length k over 0..n-1
Combinations ==
    {SortedSeq(S) : S \in {T \in SUBSET (0..(n - 1)) : Cardinality(T) = k}}

\* c comes before d in lexicographic order (tuples of equal length)
LexLess(c, d) ==
    \E j \in 1..Len(c) :
        (\A l \in 1..(j - 1) : c[l] = d[l]) /\ c[j] < d[j]

\* sub is a tuple of len strictly increasing indices of 0..n-1
IsIndexSubset(sub, len) ==
    /\ Len(sub) = len
    /\ \A j \in 1..Len(sub) : sub[j] \in 0..(n - 1)
    /\ \A j \in 1..(Len(sub) - 1) : sub[j] < sub[j + 1]

\* two members of sub share a coordinate
HoldsDuplicatePair(sub) ==
    \E a, b \in 1..Len(sub) : a < b /\ X(sub[a]) = X(sub[b])

\* the term 1 / distance^s of the points with indices a and b
RieszTerm(a, b) ==
    IF variant = "dp_1d"
    THEN InvPowAt(X(b) - X(a), s)
    ELSE InvDistAt(SqDist(X(a), X(b)), s)

\* the sum of 1/distance^s over the unordered pairs of sub, pairs taken in
\* the order (1,2), (1,3), ..., (2,3), ...; sub has pairwise distinct points
RECURSIVE RieszSum(_, _, _, _)
RieszSum(sub, a, b, acc) ==
    IF a > Len(sub) THEN acc
    ELSE IF b > Len(sub) THEN RieszSum(sub, a + 1, a + 2, acc)
    ELSE RieszSum(sub, a, b + 1, FAdd(acc, RieszTerm(sub[a], sub[b])))

RieszEnergy(sub) == RieszSum(sub, 1, 2, FZero)

\* a <= b * (1 + units * 2^-52), for non-negative floats a and b
LeqUpTo(a, b, units) ==
    IF a.kind = "zero" \/ b.kind = "inf" THEN TRUE
    ELSE IF b.kind = "zero" \/ a.kind = "inf" THEN FALSE
    ELSE LET lo == Min(a.e, b.e)
             am == BShl(a.m, a.e - lo)
             bm == BShl(b.m, b.e - lo)
         IN  \/ BCmp(am, bm) <= 0
             \/ BCmp(BShl(BSub(am, bm), 52), BMulSmall(bm, units)) <= 0

\* a and b agree up to units * 2^-52, relatively
CloseUpTo(a, b, units) == LeqUpTo(a, b, units) /\ LeqUpTo(b, a, units)

\* the solver returned, and returned a subset
Found(res) == res.status = "returned" /\ res.subset # NoneList

\* the solver returned the absent result
Absent(res) == res.status = "returned" /\ res.subset = NoneList

BothFound == pc = "done" /\ Found(dp_result) /\ Found(bf_result)

(***************************************************************************)
(* C1.  For pairwise distinct coordinates and 1 <= k <= n, the brute force *)
(* returns a size-k subset whose pairwise energy is the returned energy,   *)
(* and no size-k subset has a smaller pairwise energy.                     *)
(***************************************************************************)
C1_BruteForceGlobalMinimum ==
    (pc = "done" /\ DistinctCoords /\ k <= n) =>
        /\ Found(bf_result)
        /\ bf_result.subset \in Combinations
        /\ bf_result.energy = RieszEnergy(bf_result.subset)
        /\ \A c \in Combinations :
               ~FLess(RieszEnergy(c), bf_result.energy)

\* the minimum is not the first combination enumerated
C1_Witness ==
    /\ pc = "done" /\ DistinctCoords /\ 2 <= k /\ k < n
    /\ Found(bf_result)
    /\ bf_result.subset # [j \in 1..k |-> j - 1]

(***************************************************************************)
(* C2.  With two neighbouring points of equal coordinate and 1 <= k <= n,  *)
(* neither solver raises, neither returns a subset holding two points of   *)
(* equal coordinate, and both return the absent result when every size-k   *)
(* subset holds such a pair.                                               *)
(***************************************************************************)
RecoversFromDuplicates(res) ==
    /\ res.status # "raised"
    /\ Found(res) => ~HoldsDuplicatePair(res.subset)
    /\ (res.status = "returned"
        /\ \A c \in Combinations : HoldsDuplicatePair(c))
           => res.subset = NoneList

C2_DuplicatesRecovered ==
    (HasAdjacentDuplicate /\ k <= n) =>
        RecoversFromDuplicates(dp_result) /\ RecoversFromDuplicates(bf_result)

(***************************************************************************)
(* C3.  Of the valid size-k combinations whose energy is the returned      *)
(* minimum, the brute force returns the lexicographically first: no        *)
(* combination of the same energy comes before the returned one.           *)
(***************************************************************************)
TiesWith(c) ==
    /\ ~HoldsDuplicatePair(c)
    /\ RieszEnergy(c) = bf_result.energy

C3_FirstMinimumWins ==
    (pc = "done" /\ k <= n /\ Found(bf_result)) =>
        \A c \in Combinations :
            TiesWith(c) => ~LexLess(c, bf_result.subset)

\* a second combination has exactly the returned energy
C3_Witness ==
    /\ pc = "done" /\ 2 <= k /\ k <= n /\ Found(bf_result)
    /\ \E c \in Combinations : c # bf_result.subset /\ TiesWith(c)

(***************************************************************************)
(* C4.  For 1 <= k <= n, a subset returned by either solver, 1-D or 2-D,   *)
(* has exactly k strictly increasing indices, all in 0..n-1.               *)
(***************************************************************************)
C4_SubsetShape ==
    k <= n =>
        /\ Found(dp_result) => IsIndexSubset(dp_result.subset, k)
        /\ Found(bf_result) => IsIndexSubset(bf_result.subset, k)

C4_Witness == BothFound /\ 2 <= k /\ k < n /\ variant = "pareto2d"

(***************************************************************************)
(* C5.  When k > n, both solvers return the absent result and neither      *)
(* raises.                                                                 *)
(***************************************************************************)
C5_AbsentWhenKExceedsN ==
    k > n =>
        /\ dp_result.status # "raised"
        /\ dp_result.status = "returned" => Absent(dp_result)
        /\ bf_result.status # "raised"
        /\ bf_result.status = "returned" => Absent(bf_result)

(***************************************************************************)
(* C6.  The two solvers can disagree on a valid input: on the points       *)
(* 0, 2, 3, 4, 5, 6 with k = 5 and s = 1 the DP solver returns the subset  *)
(* [0,1,3,4,5], the brute force [0,1,2,4,5], and the DP energy is greater  *)
(* than the brute-force energy by more than rounding.                      *)
(***************************************************************************)
C6_Input ==
    /\ variant = "dp_1d"
    /\ points = <<0, 2, 3, 4, 5, 6>>
    /\ k = 5
    /\ s = 1

C7_EndpointsForTwo ==
    (pc = "done" /\ variant = "dp_1d" /\ DistinctCoords /\ k = 2 /\ n >= 2) =>
        LET energy == FRecipInt(Pow(points[n] - points[1], s))
        IN  /\ dp_result = Returned(energy, <<0, n - 1>>)
            /\ bf_result = Returned(energy, <<0, n - 1>>)

\* the example of main: points 0, 1, 3, 6, k = 2, s = 1, subset [0,3], 1/6
C7_Witness ==
    /\ pc = "done" /\ variant = "dp_1d"
    /\ points = <<0, 1, 3, 6>> /\ k = 2 /\ s = 1
    /\ dp_result = Returned(FRecipInt(6), <<0, 3>>)
    /\ bf_result = dp_result

(***************************************************************************)
(* C8.  The table is filled row by row, each row from left to right: the   *)
(* written cells are exactly those before the current cell (r, i), so      *)
(* every cell (r-1, p) read for cell (r, i) is written already, and a      *)
(* written cell is never written again or changed.                         *)
(***************************************************************************)
Written(rr, ii) == ~IsNone(dp[rr][ii])

\* cell (rr, ii) comes before the position the fill has reached
Filled(rr, ii) ==
    /\ rr >= 1
    /\ ii >= rr - 1
    /\ IF pc = "base" THEN rr = 1 /\ ii < i
       ELSE IF pc = "fill" \/ dp_result = Raised
       THEN rr < r \/ (rr = r /\ ii < i)
       ELSE rr <= r

FillOrder ==
    /\ \A rr \in 0..k : \A ii \in 0..(n - 1) : Written(rr, ii) <=> Filled(rr, ii)
    /\ pc = "fill" => \A pp \in (r - 2)..(i - 1) : Written(r - 1, pp)

WriteOnce ==
    \A rr \in 0..k : \A ii \in 0..(n - 1) :
        Written(rr, ii) => dp'[rr][ii] = dp[rr][ii]

C8_FillOrder == [][FillOrder /\ FillOrder' /\ WriteOnce]_vars

\* the third row is under way: its cell (3, i) reads cells of row 2
C8_Witness == pc = "fill" /\ r >= 3 /\ i > r - 1 /\ Written(r, i - 1)

(***************************************************************************)
(* C9.  For pairwise distinct coordinates, every written cell (rr, ii)     *)
(* holds rr strictly increasing indices, the last of them ii.  As stated,  *)
(* the stored energy is the pairwise energy of the stored subset; as       *)
(* amended, the two agree up to the rounding of the additions, a relative  *)
(* rr^2 * 2^-52, and exactly for rr <= 2.                                  *)
(***************************************************************************)
CellShape(rr, ii) ==
    LET c == dp[rr][ii]
    IN  /\ c.subset # NoneList
        /\ IsIndexSubset(c.subset, rr)
        /\ c.subset[rr] = ii

C9_CellEnergyExact ==
    (pc = "scan" /\ DistinctCoords) =>
        \A rr \in 1..k : \A ii \in 0..(n - 1) :
            Written(rr, ii) =>
                /\ CellShape(rr, ii)
                /\ dp[rr][ii].energy = RieszEnergy(dp[rr][ii].subset)

C9_CellEnergyUpToRounding ==
    (pc = "scan" /\ DistinctCoords) =>
        \A rr \in 1..k : \A ii \in 0..(n - 1) :
            Written(rr, ii) =>
                /\ CellShape(rr, ii)
                /\ CloseUpTo(dp[rr][ii].energy,
                             RieszEnergy(dp[rr][ii].subset), rr * rr)
                /\ rr <= 2 =>
                       dp[rr][ii].energy = RieszEnergy(dp[rr][ii].subset)

\* a cell of three or more points whose stored energy is not the pairwise
\* sum taken in pair order
C9_Witness ==
    /\ pc = "scan" /\ DistinctCoords
    /\ \E rr \in 3..k : \E ii \in 0..(n - 1) :
           /\ Written(rr, ii)
           /\ dp[rr][ii].energy # RieszEnergy(dp[rr][ii].subset)

(***************************************************************************)
(* C10.  For pairwise distinct coordinates and 1 <= k <= n: as stated, the *)
(* DP energy is never lower than the brute-force energy; as amended, it is *)
(* never lower by more than the rounding of the additions, a relative      *)
(* k^2 * 2^-52.                                                            *)
(***************************************************************************)
C10_NeverLower ==
    (BothFound /\ DistinctCoords /\ k <= n) =>
        ~FLess(dp_result.energy, bf_result.energy)

C10_NeverLowerUpToRounding ==
    (pc = "done" /\ DistinctCoords /\ k <= n) =>
        /\ BothFound
        /\ LeqUpTo(bf_result.energy, dp_result.energy, k * k)

\* the DP energy is below the brute-force energy, within rounding
C10_Witness ==
    /\ BothFound /\ DistinctCoords /\ k <= n
    /\ FLess(dp_result.energy, bf_result.energy)

=============================================================================
